---- MODULE Spec2Model ----
(***************************************************************************)
(* State-machine model of the Eastmoney trading agent's authentication     *)
(* session lifecycle: TradingAgent (emta/core/agent.py), AuthClient        *)
(* (emta/auth/client.py) and the part of APIClient (emta/api/client.py)    *)
(* that login uses, together with the methods and functions that keep no   *)
(* state between calls (APIClient's requests, get_market_code), which are  *)
(* applied one call at a time to inputs drawn from bounded sets.           *)
(*                                                                         *)
(* The program is single-threaded and blocking.  One public call is cut    *)
(* into steps at its network calls: the answer of each network call is an  *)
(* input of the step that makes it.  Strings the code transforms are       *)
(* sequences of one-character strings; None is the value None below.       *)
(***************************************************************************)
EXTENDS Integers, Sequences, FiniteSets, TLC

VARIABLES
    username,       \* TradingAgent.username
    password,       \* TradingAgent.password
    is_logged_in,   \* TradingAgent.is_logged_in
    account_info,   \* TradingAgent.account_info
    api_client,     \* TradingAgent.api_client (NoClient until first assigned)
    random_code,    \* AuthClient.random_code
    identify_code,  \* AuthClient.identify_code
    validate_key,   \* AuthClient.validate_key
    pc,             \* where the program is: new, ctor_failed, idle, post, captcha, token
    frame,          \* arguments and locals of the login call in progress (or last made)
    log,            \* network calls and sleeps of the call in progress (or last made)
    ret,            \* what the last public call returned
    auth_ret,       \* how the last AuthClient.login call ended
    asset_answer,   \* what the vendor answers to this call's asset query, if asked
    nrandom,        \* number of generate_random_number() draws so far
    ncalls,         \* number of login() calls made so far
    arg,            \* the call under CallSpec: what is called, on what, with what
    out,            \* what that call produced (NoOut until it is made)
    submitted       \* history: the pairs of the login POSTs made with the stored captcha

vars == <<username, password, is_logged_in, account_info, api_client,
          random_code, identify_code, validate_key,
          pc, frame, log, ret, auth_ret, asset_answer, nrandom, ncalls,
          arg, out, submitted>>

(***************************************************************************)
(* Bounds of the model.                                                    *)
(***************************************************************************)
MaxRetries == 2     \* largest max_retries argument tried
MaxCalls == 2       \* login() calls per behaviour
MaxRandom == 3      \* random numbers a behaviour may draw (one per captcha fetch)

(***************************************************************************)
(* Values.                                                                 *)
(***************************************************************************)
None == <<"None">>
NoneNum == -1       \* random_code before the first captcha (None in the code)

Truthy(s) == s # None /\ s # <<>>

\* Python's `a or b`
\* Faulty variant: the second operand is preferred.
Or_PreferSecond(a, b) == IF Truthy(b) THEN b ELSE a
Or(a, b) == IF Truthy(a) THEN a ELSE b

IsSpace(c) == c = " "

RECURSIVE LStrip(_)
LStrip(s) == IF s # <<>> /\ IsSpace(Head(s)) THEN LStrip(Tail(s)) ELSE s

RECURSIVE RStrip(_)
RStrip(s) ==
    IF s # <<>> /\ IsSpace(s[Len(s)]) THEN RStrip(SubSeq(s, 1, Len(s) - 1)) ELSE s

\* str.strip()
Strip(s) == RStrip(LStrip(s))

\* encrypt_password: RSA/PKCS#1 v1.5 under the fixed public key, base64 encoded.
\* The ciphertext is opaque: all the model keeps is which plaintext it hides.
NoCipher == [alg |-> "none", plaintext |-> None]
\* Faulty variant: the password is passed on as it is.
encrypt_password_Plain(pw) == [alg |-> "none", plaintext |-> pw]

encrypt_password(pw) == [alg |-> "RSA-PKCS1v15-b64", plaintext |-> pw]

\* Exceptions: the class, the fault it wraps and the attempt it arose in.
NoExc == [type |-> "None", fault |-> "None", attempt |-> -1]
Exc(t, f, a) == [type |-> t, fault |-> f, attempt |-> a]

\* How AuthClient.login ended.
NotCalled == [kind |-> "not_called", success |-> FALSE, exc |-> NoExc]
Returned(b) == [kind |-> "return", success |-> b, exc |-> NoExc]
Raised(e) == [kind |-> "raise", success |-> FALSE, exc |-> e]

NoClient == [validate_key |-> <<"NoClient">>]
NoFrame == [login_username |-> None, login_password |-> None,
            max_retries |-> 0, attempt |-> 0, last_exception |-> NoExc]
NoRet == [op |-> "none", value |-> "None", why |-> "none"]
Pending == [op |-> "login", value |-> "pending", why |-> "pending"]

(***************************************************************************)
(* Inputs.                                                                 *)
(***************************************************************************)
\* (username, password) arguments of the constructor and of login().
CtorArgs == { <<None, None>>, <<<<"u">>, None>>, <<<<"u">>, <<"p">>>> }
LoginArgs == { <<None, None>>, <<<<"v", " ">>, None>>, <<<<>>, <<" ", "q">>>>,
              <<<<"v", " ">>, <<" ", "q">>>> }
RetryChoices == (0 - 1) .. MaxRetries

\* Answers of the captcha endpoint and of the OCR capability.
CaptchaOutcomes ==
    { [fault |-> "none", text |-> <<"7", "k">>],
      [fault |-> "none", text |-> <<>>],
      [fault |-> "RequestError", text |-> <<>>],
      [fault |-> "HTTPStatusError", text |-> <<>>] }

\* Answers of the login endpoint.
PostOutcomes == {"Status0", "Rejected", "RequestError", "HTTPStatusError"}

\* Answers of the Trade/Buy page: the value of the em_validatekey attribute
\* when the pattern matches, or why there is no match.
TokenOutcomes ==
    { [fault |-> "none", found |-> TRUE, value |-> <<"k", "1">>],
      [fault |-> "none", found |-> TRUE, value |-> <<" ", "k", "2">>],
      [fault |-> "none", found |-> TRUE, value |-> <<>>],
      [fault |-> "none", found |-> FALSE, value |-> <<>>],
      [fault |-> "RequestError", found |-> FALSE, value |-> <<>>],
      [fault |-> "HTTPStatusError", found |-> FALSE, value |-> <<>>] }

(***************************************************************************)
(* Events of the log.                                                      *)
(***************************************************************************)
NoData == [userId |-> None, password |-> NoCipher]

PostEvent(o) ==
    [kind |-> "post", nonce |-> random_code, code |-> identify_code,
     data |-> [userId |-> Strip(frame.login_username),
               password |-> encrypt_password(Strip(frame.login_password))],
     outcome |-> o, attempt |-> frame.attempt]

SleepEvent ==
    [kind |-> "sleep", nonce |-> NoneNum, code |-> None, data |-> NoData,
     outcome |-> "slept", attempt |-> frame.attempt]

CaptchaEvent(n, c) ==
    [kind |-> "captcha", nonce |-> n, code |-> c.text, data |-> NoData,
     outcome |-> c.fault, attempt |-> frame.attempt]

TokenEvent(t) ==
    [kind |-> "token", nonce |-> NoneNum,
     code |-> IF t.fault = "none" /\ t.found THEN Strip(t.value) ELSE None,
     data |-> NoData,
     outcome |-> IF t.fault # "none" THEN t.fault
                 ELSE IF t.found THEN "found" ELSE "absent",
     attempt |-> frame.attempt]

(***************************************************************************)
(* AuthClient._get_captcha (auth/client.py 62-85).  Draw number n is the    *)
(* nonce: SystemRandom draws are modelled as never repeating.  Every        *)
(* failure, the empty recognition included, leaves as LoginError.           *)
(***************************************************************************)
\* Faulty variant: the nonce is stored as soon as it is drawn.
_get_captcha_NonceFirst(n, c) ==
    IF c.fault = "none" /\ Truthy(c.text)
    THEN [raised |-> FALSE, random_code |-> n, identify_code |-> c.text,
          exc |-> NoExc]
    ELSE [raised |-> TRUE, random_code |-> n, identify_code |-> identify_code,
          exc |-> Exc("LoginError", c.fault, frame.attempt)]

\* Faulty variant: a failed fetch is swallowed and the old pair kept.
_get_captcha_Silent(n, c) ==
    IF c.fault = "none" /\ c.text # <<>>
    THEN [raised |-> FALSE, random_code |-> n, identify_code |-> c.text,
          exc |-> NoExc]
    ELSE [raised |-> FALSE, random_code |-> random_code,
          identify_code |-> identify_code, exc |-> NoExc]

_get_captcha(n, c) ==
    IF c.fault = "none" /\ c.text # <<>>
    THEN [raised |-> FALSE, random_code |-> n, identify_code |-> c.text,
          exc |-> NoExc]
    ELSE [raised |-> TRUE, random_code |-> random_code,
          identify_code |-> identify_code,
          exc |-> Exc("LoginError",
                      IF c.fault = "none" THEN "EmptyCaptcha" ELSE c.fault,
                      frame.attempt)]

(***************************************************************************)
(* AuthClient._get_validate_key (auth/client.py 41-60).  re.findall gives   *)
(* a non-empty list as soon as the attribute is there, whatever its value;  *)
(* only httpx.RequestError is converted, an HTTP status error passes        *)
(* through as it is.                                                        *)
(***************************************************************************)
_get_validate_key(t) ==
    IF t.fault = "RequestError"
    THEN [raised |-> TRUE, validate_key |-> validate_key,
          exc |-> "ValidateKeyError"]
    ELSE IF t.fault # "none"
    THEN [raised |-> TRUE, validate_key |-> validate_key, exc |-> t.fault]
    ELSE IF t.found
    THEN [raised |-> FALSE, validate_key |-> Strip(t.value), exc |-> "None"]
    ELSE [raised |-> TRUE, validate_key |-> validate_key,
          exc |-> "ValidateKeyError"]

(***************************************************************************)
(* AuthClient.login's loop (auth/client.py 110-188).                        *)
(***************************************************************************)
\* Faulty variant: range(max_retries + 2).
AttemptRange_OneMore(max_retries) == 0 .. max_retries + 1

\* for attempt in range(max_retries + 1)
AttemptRange(max_retries) == 0 .. max_retries

\* Faulty variant: the except clauses never sleep nor refresh the captcha.
RetryAllowed_Never(attempt, max_retries) == FALSE

\* Faulty variant: if attempt <= max_retries.
RetryAllowed_AlsoAfterLast(attempt, max_retries) == attempt <= max_retries

\* if attempt < max_retries: sleep and refresh the captcha
RetryAllowed(attempt, max_retries) == attempt < max_retries

\* Faulty variant: a non-zero Status raises inside the try block.
PostDisposition_RetryRejected(o) ==
    CASE o = "Status0" -> "validate_key"
      [] o = "RequestError" -> "except_request_error"
      [] OTHER -> "except_exception"

\* Faulty variant: no raise_for_status() before the answer is read.
PostDisposition_NoStatusCheck(o) ==
    CASE o \in {"Status0", "HTTPStatusError"} -> "validate_key"
      [] o = "Rejected" -> "return_false"
      [] OTHER -> "except_request_error"

\* Faulty variant: the token page is fetched whatever Status the answer has.
PostDisposition_ScrapeOnRejected(o) ==
    CASE o \in {"Status0", "Rejected"} -> "validate_key"
      [] o = "RequestError" -> "except_request_error"
      [] OTHER -> "except_exception"

\* What the try block does with the answer of the login POST: lines 142-153
\* and the except clauses that catch what they raise.
PostDisposition(o) ==
    CASE o = "Status0" -> "validate_key"
      [] o = "Rejected" -> "return_false"
      [] o = "RequestError" -> "except_request_error"
      [] OTHER -> "except_exception"

\* Faulty variant: last_exception is only set while it is None.
NextLastException_KeepFirst(old, fault, attempt) ==
    IF old # NoExc THEN old ELSE Exc("LoginError", fault, attempt)

\* last_exception = LoginError(...) in the two retrying except clauses.
NextLastException(old, fault, attempt) == Exc("LoginError", fault, attempt)

\* After the loop: raise last_exception, or the fallback LoginError.
AfterLoop(last) ==
    IF last # NoExc THEN Raised(last)
    ELSE Raised(Exc("LoginError", "NoAttempt", -1))

(***************************************************************************)
(* APIClient (api/client.py 21-198): the attributes the class defines.     *)
(***************************************************************************)
APIClient_attrs ==
    {"__init__", "_check_response", "query_something",
     "query_asset_and_position_v1", "submit_trade_v2", "revoke_orders",
     "get_orders_data", "stock_bid_ask_em",
     "session", "logger", "validate_key"}

\* Faulty variant: __init__ does not store the token it is given.
APIClient_NoToken(vk) == [validate_key |-> None]

\* APIClient(session, validate_key): no check of the token.
APIClient(vk) == [validate_key |-> vk]

\* An attribute lookup on an APIClient instance.
HasAttr(name) == name \in APIClient_attrs

(***************************************************************************)
(* Hydration (core/agent.py 91-122, models/trading.py 24-30, 100-143).     *)
(* A vendor value is a number, a numeric string or a string that is no     *)
(* number.  A position record stands for the 38 keyword arguments of       *)
(* Position: whether the keys are exactly the fields, one Decimal field    *)
(* and one int field.                                                      *)
(***************************************************************************)
Num(v) == [t |-> "num", v |-> v]
NumStr(v) == [t |-> "str", v |-> v]
BadStr == [t |-> "badstr", v |-> 0]
EmptyText == [t |-> "text", v |-> 0]

\* float(value), Decimal(value), int(value) of a string; other values are kept.
Coerce(x) ==
    CASE x.t = "str" -> [raised |-> FALSE, value |-> Num(x.v)]
      [] x.t = "badstr" -> [raised |-> TRUE, value |-> x]
      [] OTHER -> [raised |-> FALSE, value |-> x]

\* dict.get(k, default)
Get(d, k, default) == IF k \in DOMAIN d THEN d[k] ELSE default

OverviewNumeric ==
    {"Djzj", "Dryk", "Kqzj", "Kyzj", "Ljyk", "RMBZzc", "Zjye", "Zxsz", "Zzc"}

\* AccountOverview(...) with its __post_init__
AccountOverview(data) ==
    LET raw == [k \in OverviewNumeric |-> Get(data, k, Num(0))]
    IN  [raised |-> \E k \in OverviewNumeric : Coerce(raw[k]).raised,
         value |-> [k \in OverviewNumeric \cup {"Money_type"} |->
                      IF k = "Money_type" THEN Get(data, k, EmptyText)
                      ELSE Coerce(raw[k]).value]]

\* Position(**pos_data) with its __post_init__
Position(pos_data) ==
    [raised |-> \/ pos_data.shape # "complete"
                \/ Coerce(pos_data.dec).raised
                \/ Coerce(pos_data.int).raised,
     value |-> [dec |-> Coerce(pos_data.dec).value,
                int |-> Coerce(pos_data.int).value]]

\* Faulty variant: the loop stops after the first position.
Portfolio_FirstOnly(positions) ==
    IF positions = <<>> THEN [raised |-> FALSE, value |-> <<>>]
    ELSE [raised |-> Position(Head(positions)).raised,
          value |-> <<Position(Head(positions)).value>>]

\* for pos_data in positions: portfolio.add_position(Position(**pos_data))
RECURSIVE Portfolio(_)
Portfolio(positions) ==
    IF positions = <<>> THEN [raised |-> FALSE, value |-> <<>>]
    ELSE LET p == Position(Head(positions))
             rest == Portfolio(Tail(positions))
         IN  IF p.raised THEN [raised |-> TRUE, value |-> <<>>]
             ELSE [raised |-> rest.raised, value |-> <<p.value>> \o rest.value]

\* The loop over asset_pos["Data"]: entries are appended to self.account_info
\* one by one, so an exception leaves the entries appended before it.
RECURSIVE Hydrate(_, _, _)
Hydrate(info, datas, login_username) ==
    IF datas = <<>> THEN [raised |-> FALSE, account_info |-> info]
    ELSE LET data == Head(datas)
             account == AccountOverview(data)
             portfolio == Portfolio(Get(data, "positions", <<>>))
         IN  IF account.raised \/ portfolio.raised
             THEN [raised |-> TRUE, account_info |-> info]
             ELSE Hydrate(Append(info, [username |-> login_username,
                                         account_overview |-> account.value,
                                         portfolio |-> portfolio.value]),
                          Tail(datas), login_username)

\* self.api_client.get_asset_and_position() (core/agent.py 87): the lookup of
\* a name the APIClient class does not define raises AttributeError before
\* any request is made.
get_asset_and_position(asset) ==
    IF HasAttr("get_asset_and_position")
    THEN [raised |-> FALSE, exc |-> "None", value |-> asset]
    ELSE [raised |-> TRUE, exc |-> "AttributeError", value |-> asset]

\* Asset answers the vendor may give; NoAsset where no query is reached.
NoAsset == [Status |-> 0]
AssetOutcomes ==
    { NoAsset,
      [Data |-> <<>>],
      [Data |-> << [Zjye |-> NumStr(5), positions |-> <<>>] >>],
      [Data |-> << [Zjye |-> Num(5)],
                   [Zjye |-> Num(7),
                    positions |-> << [shape |-> "complete", dec |-> NumStr(1),
                                      int |-> BadStr] >>] >>] }

(***************************************************************************)
(* TradingAgent.login after AuthClient.login has ended (core/agent.py      *)
(* 83-129): `ar` is how it ended, `vk` the validation key it left, `asset`  *)
(* the answer an asset query would get.                                    *)
(***************************************************************************)
\* Faulty variant: the handler does not reset is_logged_in.
OnLoginException_NoReset(logged, info, client, why) ==
    [is_logged_in |-> logged, account_info |-> info, api_client |-> client,
     value |-> "False", why |-> why]

\* except Exception: is_logged_in = False; return False, with `logged` the
\* value of is_logged_in when the exception is caught.
OnLoginException(logged, info, client, why) ==
    [is_logged_in |-> FALSE, account_info |-> info, api_client |-> client,
     value |-> "False", why |-> why]

AfterAuth(ar, vk, asset) ==
    IF ar.kind = "raise"
    THEN OnLoginException(is_logged_in, account_info, api_client, ar.exc.type)
    ELSE IF ~ar.success
    THEN [is_logged_in |-> is_logged_in, account_info |-> account_info,
          api_client |-> api_client, value |-> "False", why |-> "rejected"]
    ELSE LET client == APIClient(vk)
             asset_pos == get_asset_and_position(asset)
             h == IF "Data" \in DOMAIN asset_pos.value
                  THEN Hydrate(account_info, asset_pos.value.Data,
                               frame.login_username)
                  ELSE [raised |-> FALSE, account_info |-> account_info]
         IN  IF asset_pos.raised
             THEN OnLoginException(TRUE, account_info, client, asset_pos.exc)
             ELSE IF h.raised
             THEN OnLoginException(TRUE, h.account_info, client, "hydration")
             ELSE [is_logged_in |-> TRUE, account_info |-> h.account_info,
                   api_client |-> client, value |-> "True", why |-> "ok"]

\* AuthClient.login has ended with `ar`; TradingAgent.login runs to its return.
Finish(ar, vk, asset) ==
    LET a == AfterAuth(ar, vk, asset)
    IN  /\ auth_ret' = ar
        /\ is_logged_in' = a.is_logged_in
        /\ account_info' = a.account_info
        /\ api_client' = a.api_client
        /\ ret' = [op |-> "login", value |-> a.value, why |-> a.why]
        /\ asset_answer' = asset
        /\ pc' = "idle"

\* Faulty variant: after the last attempt the loop spins instead of ending.
LoopAdvance_Spin(last) ==
    /\ frame' = [frame EXCEPT !.last_exception = last]
    /\ pc' = IF frame.attempt + 1 \in AttemptRange(frame.max_retries)
             THEN "post" ELSE "spin"
    /\ UNCHANGED <<is_logged_in, account_info, api_client, ret, auth_ret,
                   asset_answer>>

\* The for loop moves on from attempt `a`: the next attempt, or the code after
\* the loop.
LoopAdvance(last) ==
    IF frame.attempt + 1 \in AttemptRange(frame.max_retries)
    THEN /\ frame' = [frame EXCEPT !.attempt = @ + 1, !.last_exception = last]
         /\ pc' = "post"
         /\ UNCHANGED <<is_logged_in, account_info, api_client, ret, auth_ret,
                        asset_answer>>
    ELSE /\ frame' = [frame EXCEPT !.last_exception = last]
         /\ Finish(AfterLoop(last), validate_key, NoAsset)

\* One of the two retrying except clauses (auth/client.py 158-181) has caught
\* `fault` in the current attempt; `ev` is the event that raised it.
OnAttemptException(ev, fault) ==
    LET last == NextLastException(frame.last_exception, fault, frame.attempt)
    IN  IF RetryAllowed(frame.attempt, frame.max_retries)
        THEN /\ log' = log \o <<ev, SleepEvent>>
             /\ frame' = [frame EXCEPT !.last_exception = last]
             /\ pc' = "captcha"
             /\ UNCHANGED <<is_logged_in, account_info, api_client, ret,
                            auth_ret, asset_answer>>
        ELSE /\ log' = Append(log, ev)
             /\ LoopAdvance(last)

(***************************************************************************)
(* get_market_code (utils/stocks.py 1-20).  Characters are ASCII: the      *)
(* digits, the letters and the space are what str.isdigit, str.isalpha,    *)
(* str.upper and str.strip tell apart here.                                *)
(***************************************************************************)
DigitChars == {"0", "1", "2", "3", "4", "5", "6", "7", "8", "9"}
Lowercase == <<"a", "b", "c", "d", "e", "f", "g", "h", "i", "j", "k", "l", "m",
               "n", "o", "p", "q", "r", "s", "t", "u", "v", "w", "x", "y", "z">>
Uppercase == <<"A", "B", "C", "D", "E", "F", "G", "H", "I", "J", "K", "L", "M",
               "N", "O", "P", "Q", "R", "S", "T", "U", "V", "W", "X", "Y", "Z">>

IsLower(c) == \E i \in 1 .. Len(Lowercase) : Lowercase[i] = c
IsUpper(c) == \E i \in 1 .. Len(Uppercase) : Uppercase[i] = c

\* str.isdigit() and str.isalpha(): false for the empty string
IsDigitStr(s) == s # <<>> /\ \A i \in 1 .. Len(s) : s[i] \in DigitChars
IsAlphaStr(s) == s # <<>> /\ \A i \in 1 .. Len(s) : IsLower(s[i]) \/ IsUpper(s[i])

\* str.upper()
UpperChar(c) ==
    IF IsLower(c)
    THEN Uppercase[CHOOSE i \in 1 .. Len(Lowercase) : Lowercase[i] = c]
    ELSE c
Upper(s) == [i \in 1 .. Len(s) |-> UpperChar(s[i])]

\* str.startswith(prefix) and str.startswith((p1, p2, ...))
StartsWith(s, prefix) ==
    Len(s) >= Len(prefix) /\ SubSeq(s, 1, Len(prefix)) = prefix
StartsWithAny(s, prefixes) == \E q \in prefixes : StartsWith(s, q)

\* A zfill that pads nothing.
ZFill_NoPadding(s, width) == s

\* str.zfill(width) of a string without sign
RECURSIVE ZFill(_, _)
ZFill(s, width) == IF Len(s) >= width THEN s ELSE ZFill(<<"0">> \o s, width)

ShanghaiPrefixes ==
    { <<"6", "0", "0">>, <<"6", "0", "1">>, <<"6", "0", "3">>,
      <<"6", "0", "5">>, <<"6", "8", "8">> }
ShenzhenPrefixes ==
    { <<"0", "0", "0">>, <<"0", "0", "1">>, <<"0", "0", "2">>,
      <<"0", "0", "3">>, <<"3", "0", "0">>, <<"3", "0", "1">> }

get_market_code(raw) ==
    LET code == Strip(raw)
    IN  IF StartsWithAny(code, ShanghaiPrefixes) THEN <<"H", "A">>
        ELSE IF StartsWithAny(code, ShenzhenPrefixes) THEN <<"S", "A">>
        ELSE IF StartsWith(code, <<"8">>) \/ StartsWith(code, <<"4">>)
        THEN <<"B", "J">>
        ELSE IF IsDigitStr(code) /\ Len(code) <= 5
        THEN <<"H", "K">> \o ZFill(code, 5)
        ELSE IF IsAlphaStr(code) THEN <<"U", "S", ":">> \o Upper(code)
        ELSE <<"U", "N", "K", "N", "O", "W", "N">>

(***************************************************************************)
(* One call of a method or function that keeps no state between calls: the *)
(* call (what is called, the text argument, the object it is called on,     *)
(* the answer of the network) and what it produced.                         *)
(***************************************************************************)
NoArg == [fn |-> "none", text |-> None]    \* no single call: the session runs
NoJson == [parses |-> FALSE]
NoOut == [raised |-> FALSE, exc |-> "None", value |-> <<"NoOut">>,
          json |-> NoJson, requests |-> <<>>]

\* The call returned the string (or None) `v`, or the parsed JSON `j`, after
\* sending `reqs`; or it raised `e`.
Result(v, j, reqs) ==
    [raised |-> FALSE, exc |-> "None", value |-> v, json |-> j, requests |-> reqs]
Raise(e, reqs) ==
    [raised |-> TRUE, exc |-> e, value |-> None, json |-> NoJson, requests |-> reqs]

(***************************************************************************)
(* APIClient's requests (api/client.py 34-131).  An answer of the vendor   *)
(* is a transport fault, or a status code with a body; a body is its text  *)
(* and what resp.json() makes of it.                                       *)
(***************************************************************************)
\* f"{value}": None is written as the text None
Str(v) == IF v = None THEN <<"N", "o", "n", "e">> ELSE v

\* The default req_data of query_something: {"qqhs": 100, "dwc": ""}
DefaultReqData == [qqhs |-> 100, dwc |-> <<>>]

\* Faulty variant: only a server error raises.
_check_response_ServerErrorsOnly(answer) == answer.status_code >= 500

\* _check_response raises TradingError: if resp.status_code != 200
_check_response(answer) == answer.status_code # 200

\* query_something(url, req_data): the request it sends and how it ends.
query_something(client, url, req_data, answer) ==
    LET request == [url |-> url, validatekey |-> Str(client.validate_key),
                    data |-> req_data]
    IN  IF answer.fault # "none" THEN Raise(answer.fault, <<request>>)
        ELSE IF _check_response(answer) THEN Raise("TradingError", <<request>>)
        ELSE Result(answer.body.text, NoJson, <<request>>)

\* self._check_response(resp); return resp.json()
ResponseJson(answer, sent) ==
    IF sent.raised THEN sent
    ELSE IF _check_response(answer) THEN Raise("TradingError", sent.requests)
    ELSE IF ~answer.body.json.parses THEN Raise("JSONDecodeError", sent.requests)
    ELSE Result(None, answer.body.json, sent.requests)

query_asset_and_position_v1(client, answer) ==
    ResponseJson(answer,
        query_something(client, "Com/queryAssetAndPositionV1", DefaultReqData,
                        answer))

submit_trade_v2(client, stock_code, trade_type, market, price, amount, answer) ==
    ResponseJson(answer,
        query_something(client, "Trade/SubmitTradeV2",
                        [stockCode |-> stock_code, tradeType |-> trade_type,
                         zqmc |-> <<>>, market |-> market, price |-> price,
                         amount |-> amount],
                        answer))

\* return resp.text.strip()
revoke_orders(client, order_str, answer) ==
    LET sent == query_something(client, "Trade/RevokeOrders",
                                [revokes |-> Strip(order_str)], answer)
    IN  IF sent.raised THEN sent
        ELSE IF _check_response(answer) THEN Raise("TradingError", sent.requests)
        ELSE Result(Strip(answer.body.text), NoJson, sent.requests)

get_orders_data(client, answer) ==
    ResponseJson(answer,
        query_something(client, "Search/GetOrdersData", DefaultReqData, answer))

\* JSON null where an object is expected.
JsonNull == [null |-> TRUE]

\* The request of stock_bid_ask_em: secid is f"{market_code}.{symbol}".
QuoteRequest(symbol) ==
    [url |-> "push2/api/qt/stock/get",
     secid |-> (IF StartsWith(symbol, <<"6">>) THEN <<"1">> ELSE <<"0">>)
               \o <<".">> \o symbol]

\* Faulty variant: the quote request carries the client's token.
stock_bid_ask_em_WithToken(client, symbol, answer) ==
    LET request == [url |-> "push2/api/qt/stock/get",
                    secid |-> QuoteRequest(symbol).secid,
                    validatekey |-> Str(client.validate_key)]
        j == answer.body.json
    IN  IF answer.fault # "none" THEN Raise(answer.fault, <<request>>)
        ELSE IF ~j.parses THEN Raise("JSONDecodeError", <<request>>)
        ELSE IF "data" \notin DOMAIN j THEN Raise("KeyError", <<request>>)
        ELSE IF j.data = JsonNull THEN Raise("TypeError", <<request>>)
        ELSE Result(None,
                    [parses |-> TRUE, latest |-> j.data.f43,
                     buy_1_vol |-> j.data.f20 * 100],
                    <<request>>)

\* stock_bid_ask_em(symbol): a GET without token and without a check of the
\* status; resp.json() and the subscripts data_json["data"]["f.."] raise on a
\* body that is no JSON, has no "data" or has null there; the volumes are
\* multiplied by 100.
stock_bid_ask_em(client, symbol, answer) ==
    LET request == QuoteRequest(symbol)
        j == answer.body.json
    IN  IF answer.fault # "none" THEN Raise(answer.fault, <<request>>)
        ELSE IF ~j.parses THEN Raise("JSONDecodeError", <<request>>)
        ELSE IF "data" \notin DOMAIN j THEN Raise("KeyError", <<request>>)
        ELSE IF j.data = JsonNull THEN Raise("TypeError", <<request>>)
        ELSE Result(None,
                    [parses |-> TRUE, latest |-> j.data.f43,
                     buy_1_vol |-> j.data.f20 * 100],
                    <<request>>)

(***************************************************************************)
(* TradingAgent's other methods (core/agent.py 131-255).  Values that are  *)
(* no strings are written as one-element tuples: False, True, [], {},      *)
(* a dict, OrderStatus.FILLED; the empty string is the empty tuple.        *)
(***************************************************************************)
PyFalse == <<"False">>
PyTrue == <<"True">>
EmptyList == <<"[]">>
EmptyDict == <<"{}">>

\* What `ret` keeps of a returned value.
Repr(v) == IF v = <<>> THEN "''" ELSE IF Len(v) = 1 THEN v[1] ELSE "str"

\* Faulty variant: logout leaves the account snapshot in place.
AgentLogout_KeepAccounts(logged, info, vk) ==
    [is_logged_in |-> FALSE, account_info |-> info, validate_key |-> None]

\* Faulty variant: AuthClient.logout leaves the token in place.
AgentLogout_KeepToken(logged, info, vk) ==
    [is_logged_in |-> FALSE, account_info |-> <<>>, validate_key |-> vk]

\* TradingAgent.logout with AuthClient.logout, on an agent whose fields are
\* `logged`, `info` and `vk`: the fields it assigns.
AgentLogout(logged, info, vk) ==
    [is_logged_in |-> FALSE, account_info |-> <<>>, validate_key |-> None]

\* Faulty variant: if self.is_logged_in.
NotLoggedIn_Inverted(logged) == logged

\* if not self.is_logged_in (core/agent.py 144, 203, 223, 241)
NotLoggedIn(logged) == ~logged

\* Faulty variant: the record is made of the last entry.
get_account_info_Last(logged, info) ==
    IF NotLoggedIn(logged) \/ info = <<>> THEN Result(EmptyList, NoJson, <<>>)
    ELSE Result(<<"dict">>,
                [parses |-> TRUE, username |-> info[Len(info)].username,
                 account_balance |-> info[Len(info)].account_overview.Zjye,
                 portfolio |-> info[Len(info)].portfolio],
                <<>>)

get_account_info(logged, info) ==
    IF NotLoggedIn(logged) THEN Result(EmptyList, NoJson, <<>>)
    ELSE IF info # <<>>
    THEN Result(<<"dict">>,
                [parses |-> TRUE, username |-> info[1].username,
                 account_balance |-> info[1].account_overview.Zjye,
                 portfolio |-> info[1].portfolio],
                <<>>)
    ELSE Result(EmptyList, NoJson, <<>>)

\* Faulty variant: if not self.auth_client.validate_key.
NoSessionForOrder_TokenOnly(logged, vk) == ~Truthy(vk)

\* if not self.is_logged_in or not self.auth_client.validate_key
NoSessionForOrder(logged, vk) == ~logged \/ ~Truthy(vk)

\* place_order: self.api_client.create_order is looked up on an agent that may
\* have no api_client yet and on a class that does not define create_order;
\* the lines after the call return the empty string whatever the answer.
place_order(logged, vk, client, stock_code) ==
    IF NoSessionForOrder(logged, vk) THEN Result(None, NoJson, <<>>)
    ELSE LET market == get_market_code(stock_code)
         IN  IF client = NoClient \/ ~HasAttr("create_order")
             THEN Raise("AttributeError", <<>>)
             ELSE Result(<<>>, NoJson, <<>>)

\* cancel_order, get_order_status and get_market_data: placeholders that send
\* nothing.
cancel_order(logged, order_id) ==
    IF NotLoggedIn(logged) THEN Result(PyFalse, NoJson, <<>>)
    ELSE Result(PyTrue, NoJson, <<>>)

get_order_status(logged, order_id) ==
    IF NotLoggedIn(logged) THEN Result(None, NoJson, <<>>)
    ELSE Result(<<"FILLED">>, NoJson, <<>>)

get_market_data(logged, symbol) ==
    IF NotLoggedIn(logged) THEN Result(EmptyDict, NoJson, <<>>)
    ELSE Result(<<"dict">>,
                [parses |-> TRUE, symbol |-> symbol, last_price |-> 100,
                 volume |-> 1000000],
                <<>>)

(***************************************************************************)
(* Operations.                                                             *)
(***************************************************************************)
Init ==
    /\ username = None /\ password = None
    /\ is_logged_in = FALSE
    /\ account_info = <<>>
    /\ api_client = NoClient
    /\ random_code = NoneNum /\ identify_code = None /\ validate_key = None
    /\ pc = "new"
    /\ frame = NoFrame
    /\ log = <<>>
    /\ ret = NoRet
    /\ auth_ret = NotCalled
    /\ asset_answer = NoAsset
    /\ nrandom = 0
    /\ ncalls = 0
    /\ submitted = <<>>
    /\ arg = NoArg
    /\ out = NoOut

\* TradingAgent.__init__ (core/agent.py 30-43) with AuthClient.__init__
\* (auth/client.py 28-39), which fetches the first captcha.
Construct(u, p, c) ==
    /\ pc = "new"
    /\ LET g == _get_captcha(nrandom + 1, c)
       IN  /\ username' = u /\ password' = p
           /\ random_code' = g.random_code
           /\ identify_code' = g.identify_code
           /\ log' = <<CaptchaEvent(nrandom + 1, c)>>
           /\ nrandom' = nrandom + 1
           /\ pc' = IF g.raised THEN "ctor_failed" ELSE "idle"
           /\ ret' = [op |-> "__init__",
                      value |-> IF g.raised THEN "raise" ELSE "None",
                      why |-> g.exc.type]
    /\ UNCHANGED <<is_logged_in, account_info, api_client, validate_key,
                   frame, auth_ret, asset_answer, ncalls, arg, out, submitted>>

\* Faulty variant: if not login_username.
CredentialsMissing_UsernameOnly(login_username, login_password) ==
    ~Truthy(login_username)

\* if not login_username or not login_password (core/agent.py 72)
CredentialsMissing(login_username, login_password) ==
    ~Truthy(login_username) \/ ~Truthy(login_password)

\* TradingAgent.login up to the first login POST (core/agent.py 69-82,
\* auth/client.py 110-112).
Login(u, p, max_retries) ==
    /\ pc = "idle"
    /\ ncalls < MaxCalls
    /\ nrandom + (IF max_retries > 0 THEN max_retries ELSE 0) <= MaxRandom
    /\ ncalls' = ncalls + 1
    /\ log' = <<>>
    /\ UNCHANGED <<random_code, identify_code, validate_key, nrandom, arg, out,
                   submitted>>
    /\ LET login_username == Or(u, username)
           login_password == Or(p, password)
           f == [login_username |-> login_username,
                 login_password |-> login_password,
                 max_retries |-> max_retries, attempt |-> 0,
                 last_exception |-> NoExc]
       IN  IF CredentialsMissing(login_username, login_password)
           THEN /\ ret' = [op |-> "login", value |-> "False",
                           why |-> "missing_credentials"]
                /\ auth_ret' = NotCalled
                /\ asset_answer' = NoAsset
                /\ frame' = f
                /\ UNCHANGED <<username, password, is_logged_in, account_info,
                               api_client, pc>>
           ELSE /\ username' = login_username
                /\ password' = login_password
                /\ frame' = f
                /\ IF 0 \in AttemptRange(max_retries)
                   THEN /\ pc' = "post"
                        /\ ret' = Pending
                        /\ auth_ret' = NotCalled
                        /\ asset_answer' = NoAsset
                        /\ UNCHANGED <<is_logged_in, account_info, api_client>>
                   ELSE Finish(AfterLoop(NoExc), validate_key, NoAsset)

\* session.post(LOGIN_URL, ...) and what the try block does with the answer
\* (auth/client.py 113-153).
Post(o) ==
    /\ pc = "post"
    /\ UNCHANGED <<username, password, random_code, identify_code,
                   validate_key, nrandom, ncalls, arg, out>>
    /\ submitted' = Append(submitted, <<random_code, identify_code>>)
    /\ LET d == PostDisposition(o)
       IN  CASE d = "validate_key" ->
                  /\ log' = Append(log, PostEvent(o))
                  /\ pc' = "token"
                  /\ UNCHANGED <<frame, is_logged_in, account_info,
                                 api_client, ret, auth_ret, asset_answer>>
             [] d = "return_false" ->
                  /\ log' = Append(log, PostEvent(o))
                  /\ UNCHANGED frame
                  /\ Finish(Returned(FALSE), validate_key, NoAsset)
             [] OTHER -> OnAttemptException(PostEvent(o), o)

\* self._get_validate_key() inside the try block (auth/client.py 148-149).
Token(t, asset) ==
    /\ pc = "token"
    /\ UNCHANGED <<username, password, random_code, identify_code, nrandom,
                   ncalls, arg, out, submitted>>
    /\ LET k == _get_validate_key(t)
       IN  /\ validate_key' = k.validate_key
           /\ IF k.raised
              THEN OnAttemptException(TokenEvent(t), k.exc)
              ELSE /\ log' = Append(log, TokenEvent(t))
                   /\ UNCHANGED frame
                   /\ Finish(Returned(TRUE), k.validate_key, asset)

\* self._get_captcha() inside an except clause (auth/client.py 167, 179): a
\* LoginError it raises leaves AuthClient.login at once.  A new pair starts
\* the history `submitted` afresh: a nonce is never drawn twice, so no later
\* POST can carry a pair that has been replaced.
Captcha(c) ==
    /\ pc = "captcha"
    /\ nrandom' = nrandom + 1
    /\ UNCHANGED <<username, password, validate_key, ncalls, arg, out>>
    /\ LET g == _get_captcha(nrandom + 1, c)
       IN  /\ submitted' = IF g.raised THEN submitted ELSE <<>>
           /\ random_code' = g.random_code
           /\ identify_code' = g.identify_code
           /\ log' = Append(log, CaptchaEvent(nrandom + 1, c))
           /\ IF g.raised
              THEN /\ UNCHANGED frame
                   /\ Finish(Raised(g.exc), validate_key, NoAsset)
              ELSE LoopAdvance(frame.last_exception)

\* TradingAgent.logout with AuthClient.logout (core/agent.py 131-136,
\* auth/client.py 190-193).
Logout ==
    /\ pc = "idle"
    /\ LET a == AgentLogout(is_logged_in, account_info, validate_key)
       IN  /\ is_logged_in' = a.is_logged_in
           /\ account_info' = a.account_info
           /\ validate_key' = a.validate_key
    /\ log' = <<>>
    /\ ret' = [op |-> "logout", value |-> "None", why |-> "ok"]
    /\ UNCHANGED <<username, password, api_client, random_code, identify_code,
                   pc, frame, auth_ret, asset_answer, nrandom, ncalls, arg, out,
                   submitted>>

\* A method that assigns no field has produced `r`.
Query(op, r) ==
    /\ pc = "idle"
    /\ log' = r.requests
    /\ ret' = [op |-> op,
               value |-> IF r.raised THEN "raise" ELSE Repr(r.value),
               why |-> r.exc]
    /\ UNCHANGED <<username, password, is_logged_in, account_info, api_client,
                   random_code, identify_code, validate_key, pc, frame,
                   auth_ret, asset_answer, nrandom, ncalls, arg, out, submitted>>

GetAccountInfo == Query("get_account_info", get_account_info(is_logged_in, account_info))

PlaceOrder(stock_code) ==
    Query("place_order",
          place_order(is_logged_in, validate_key, api_client, stock_code))

CancelOrder(order_id) == Query("cancel_order", cancel_order(is_logged_in, order_id))

GetOrderStatus(order_id) ==
    Query("get_order_status", get_order_status(is_logged_in, order_id))

GetMarketData(symbol) ==
    Query("get_market_data", get_market_data(is_logged_in, symbol))

\* A stock code and an order string.
Texts == { <<"6", "0", "0", "0", "0", "0">>, <<" ", "d", "_", "1", " ">> }

Next ==
    \/ \E a \in CtorArgs, c \in CaptchaOutcomes : Construct(a[1], a[2], c)
    \/ \E a \in LoginArgs, m \in RetryChoices : Login(a[1], a[2], m)
    \/ \E o \in PostOutcomes : Post(o)
    \/ \E t \in TokenOutcomes, a \in AssetOutcomes : Token(t, a)
    \/ \E c \in CaptchaOutcomes : Captcha(c)
    \/ Logout
    \/ GetAccountInfo
    \/ \E t \in Texts : PlaceOrder(t)
    \/ \E t \in Texts : CancelOrder(t)
    \/ \E t \in Texts : GetOrderStatus(t)
    \/ \E t \in Texts : GetMarketData(t)

Spec == Init /\ [][Next]_vars

\* A network call of a login in progress gets its answer and the code runs
\* on to the next network call or to the return.
LoginStep ==
    \/ \E o \in PostOutcomes : Post(o)
    \/ \E t \in TokenOutcomes, a \in AssetOutcomes : Token(t, a)
    \/ \E c \in CaptchaOutcomes : Captcha(c)

\* Constructions and logins alone, where every network call eventually
\* returns or fails.
LoginNext ==
    \/ \E a \in CtorArgs, c \in CaptchaOutcomes : Construct(a[1], a[2], c)
    \/ \E a \in LoginArgs, m \in RetryChoices : Login(a[1], a[2], m)
    \/ LoginStep

FairSpec == Init /\ [][LoginNext]_vars /\ WF_vars(LoginStep)

(***************************************************************************)
(* Single calls: the inputs are drawn at the start, one call is made.      *)
(***************************************************************************)
MaxCodeLen == 5     \* longest all-digit stock code drawn
MaxMixedLen == 4    \* longest symbol drawn from digits, letters and spaces

\* Digits that reach every branch of get_market_code.
CodeDigits == {"0", "1", "4", "6", "7"}

Symbols ==
    UNION { [1 .. n -> CodeDigits] : n \in 0 .. MaxCodeLen }
    \cup { <<"6", "0", "0", "5", "1", "9">>, <<"0", "0", "0", "0", "0", "1">>,
           <<" ", "0", "0", "7", "0", "0", " ">>, <<"a", "A", "p", "l">>,
           <<"a", "1">>, <<" ">>, <<"8", "x">>, <<"1", "2", "3", "4", "5", "6">> }
    \cup UNION { [1 .. n -> {"0", "6", "a", "Z", " "}] : n \in 0 .. MaxMixedLen }

\* Tokens an APIClient is built with: absent, empty, scraped.
Tokens == { None, <<>>, <<"k", "1">> }

Bodies ==
    { [text |-> <<" ", "o", "k", " ">>,
       json |-> [parses |-> TRUE, Status |-> 0,
                 Wtbh |-> <<"1", "3", "0", "6", "6", "2">>]],
      [text |-> <<"n", "o">>,
       json |-> [parses |-> TRUE, Status |-> 0 - 1, Wtbh |-> None]],
      [text |-> <<>>, json |-> NoJson] }

ApiAnswers ==
    { [fault |-> "RequestError", status_code |-> 0,
       body |-> [text |-> <<>>, json |-> NoJson]] }
    \cup { [fault |-> "none", status_code |-> s, body |-> b] :
             s \in {200, 404, 500}, b \in Bodies }

ApiOps ==
    {"query_asset_and_position_v1", "submit_trade_v2", "revoke_orders",
     "get_orders_data"}

\* Answers of the quote endpoint: a quote, a null quote, and the answers above.
QuoteAnswers ==
    ApiAnswers
    \cup { [fault |-> "none", status_code |-> 200,
            body |-> [text |-> <<"q">>, json |-> [parses |-> TRUE, data |-> d]]] :
             d \in { JsonNull, [f43 |-> 12, f20 |-> 3] } }

QuoteSymbols ==
    Texts \cup { <<>>, <<"0", "0", "0", "0", "0", "1">>,
                 <<" ", "6", "0", "0", "0", "0", "0">>, <<"6">> }

\* Account snapshots an agent may hold: entries as the hydration builds them.
Snapshots ==
    LET entry(n) == [username |-> <<"u">>,
                     account_overview |-> AccountOverview([Zjye |-> Num(n)]).value,
                     portfolio |-> <<>>]
    IN  { <<>>, <<entry(5)>>, <<entry(5), entry(7)>> }

\* The agent a method is called on: its fields, with the token of its
\* AuthClient and its APIClient.
Agents ==
    { [is_logged_in |-> b, account_info |-> i, validate_key |-> k,
       api_client |-> c] :
        b \in BOOLEAN, i \in Snapshots, k \in Tokens,
        c \in {NoClient, APIClient(<<"k", "1">>)} }

NoAgent ==
    [is_logged_in |-> FALSE, account_info |-> <<>>, validate_key |-> None,
     api_client |-> NoClient]

\* An asset answer with two well-formed positions in its first entry and an
\* entry without positions.
HoldingsAnswer ==
    [Data |-> << [Zjye |-> Num(5),
                  positions |-> << [shape |-> "complete", dec |-> NumStr(1),
                                    int |-> Num(2)],
                                   [shape |-> "complete", dec |-> Num(3),
                                    int |-> NumStr(4)] >>],
                 [Kyzj |-> NumStr(7)] >>]

(***************************************************************************)
(* The agent of emta/trading.py.  Its account_info is a dict: the empty    *)
(* one after construction and logout, the placeholder after a login.       *)
(***************************************************************************)
NoAccountInfo == <<>>

PlaceholderAccount(login_username) ==
    [username |-> login_username, account_balance |-> 100000,
     positions |-> <<>>]

\* Agents of emta/trading.py a login is called on: one just constructed or
\* logged out, and one a login succeeded on.
LegacyAgents ==
    { [is_logged_in |-> FALSE, account_info |-> NoAccountInfo,
       validate_key |-> None, api_client |-> NoClient],
      [is_logged_in |-> TRUE, account_info |-> PlaceholderAccount(<<"u">>),
       validate_key |-> <<"k", "1">>, api_client |-> NoClient] }

\* TradingAgent._get_validate_key of emta/trading.py (153-179): the token
\* the agent holds afterwards, or the exception that leaves the method.
legacy__get_validate_key(key, t) ==
    IF t.fault = "RequestError"
    THEN [raised |-> TRUE, validate_key |-> key, exc |-> "ValidateKeyError"]
    ELSE IF t.fault # "none"
    THEN [raised |-> TRUE, validate_key |-> key, exc |-> t.fault]
    ELSE IF t.found
    THEN [raised |-> FALSE, validate_key |-> Strip(t.value), exc |-> "None"]
    ELSE [raised |-> TRUE, validate_key |-> key, exc |-> "ValidateKeyError"]

\* The except clauses of TradingAgent.login (emta/trading.py 285-293) when
\* _get_validate_key raised after the Status 0 branch had assigned
\* is_logged_in and account_info: they log and return False.
legacy_login_Except(self, login_username, k) ==
    [is_logged_in |-> TRUE, account_info |-> PlaceholderAccount(login_username),
     validate_key |-> k.validate_key, value |-> PyFalse, why |-> k.exc]

\* TradingAgent.login of emta/trading.py (210-294) on the agent `self`
\* (its fields, with its stored credentials and captcha pair), answered `o`
\* by the login endpoint and `t` by the Trade/Buy page.
legacy_login(self, u, p, o, t) ==
    LET login_username == Or(u, self.username)
        login_password == Or(p, self.password)
        same(v, w) == [is_logged_in |-> self.is_logged_in,
                       account_info |-> self.account_info,
                       validate_key |-> self.validate_key,
                       value |-> v, why |-> w]
        k == legacy__get_validate_key(self.validate_key, t)
    IN  IF CredentialsMissing(login_username, login_password)
        THEN same(PyFalse, "missing_credentials") @@ [requests |-> <<>>]
        ELSE LET post == [url |-> "Login/Authentication",
                          validatekey |-> Str(self.validate_key),
                          userId |-> Strip(login_username),
                          password |-> encrypt_password(Strip(login_password)),
                          randNumber |-> self.random_code,
                          identifyCode |-> self.identify_code]
             IN  (IF o = "Status0"
                  THEN IF k.raised
                       THEN legacy_login_Except(self, login_username, k)
                       ELSE [is_logged_in |-> TRUE,
                             account_info |-> PlaceholderAccount(login_username),
                             validate_key |-> k.validate_key,
                             value |-> PyTrue, why |-> "None"]
                  ELSE same(PyFalse, o))
                 @@ [requests |-> <<post>>]

CallInputs ==
    { [fn |-> "get_market_code", text |-> s, agent |-> NoAgent] : s \in Symbols }
    \cup { [fn |-> "APIClient", text |-> None, agent |-> NoAgent, token |-> k] :
             k \in Tokens }
    \cup { [fn |-> f, text |-> t, agent |-> NoAgent, token |-> k, answer |-> a] :
             f \in ApiOps, t \in Texts, k \in Tokens, a \in ApiAnswers }
    \cup { [fn |-> "stock_bid_ask_em", text |-> t, agent |-> NoAgent, token |-> k,
            answer |-> a] :
             t \in QuoteSymbols, k \in Tokens, a \in QuoteAnswers }
    \cup { [fn |-> "logout", text |-> None, agent |-> g] : g \in Agents }
    \cup { [fn |-> "get_account_info", text |-> None, agent |-> g] : g \in Agents }
    \cup { [fn |-> "legacy_login", text |-> None, agent |-> g, stored |-> s,
            creds |-> c, pair |-> <<1, <<"7", "k">> >>, post |-> o, token |-> t] :
             g \in LegacyAgents, s \in CtorArgs, c \in LoginArgs,
             o \in PostOutcomes, t \in TokenOutcomes }
    \cup { [fn |-> "place_order", text |-> <<"6", "0", "0", "0", "0", "0">>,
            agent |-> g, answer |-> a] :
             g \in { h \in Agents : Len(h.account_info) < 2 }, a \in ApiAnswers }
    \cup { [fn |-> "_get_captcha", text |-> None, agent |-> NoAgent,
            pair |-> q, nonce |-> 2, captcha |-> c] :
             q \in { <<NoneNum, None>>, <<1, <<"7", "k">> >> },
             c \in CaptchaOutcomes \cup { [fault |-> "none", text |-> <<"x", "9">>] } }
    \cup { [fn |-> "cancel_order", text |-> <<"1", "3", "0", "6", "6", "2">>,
            agent |-> g, answer |-> a] :
             g \in { h \in Agents : h.account_info = <<>> }, a \in ApiAnswers }
    \cup { [fn |-> "Hydrate", text |-> <<"u">>, agent |-> g, asset |-> a] :
             g \in Agents,
             a \in { b \in AssetOutcomes : "Data" \in DOMAIN b } \cup {HoldingsAnswer} }

CallInit ==
    /\ arg \in CallInputs
    /\ out = NoOut
    /\ username = IF "stored" \in DOMAIN arg THEN arg.stored[1] ELSE None
    /\ password = IF "stored" \in DOMAIN arg THEN arg.stored[2] ELSE None
    /\ is_logged_in = arg.agent.is_logged_in
    /\ account_info = arg.agent.account_info
    /\ api_client = arg.agent.api_client
    /\ random_code = IF "pair" \in DOMAIN arg THEN arg.pair[1] ELSE NoneNum
    /\ identify_code = IF "pair" \in DOMAIN arg THEN arg.pair[2] ELSE None
    /\ validate_key = arg.agent.validate_key
    /\ pc = "call"
    /\ frame = NoFrame
    /\ log = <<>>
    /\ ret = NoRet
    /\ auth_ret = NotCalled
    /\ asset_answer = NoAsset
    /\ nrandom = 0
    /\ ncalls = 0
    /\ submitted = <<>>

\* The variables of the session, which a single call leaves alone.
session_vars ==
    <<username, password, is_logged_in, account_info, api_client, random_code,
      identify_code, validate_key, pc, frame, log, ret, auth_ret, asset_answer,
      nrandom, ncalls, submitted>>

\* The call `fn` is made and produces `result`.
Apply(fn, result) ==
    /\ pc = "call" /\ out = NoOut
    /\ arg.fn = fn
    /\ out' = result
    /\ UNCHANGED <<session_vars, arg>>

Call_get_market_code ==
    Apply("get_market_code", Result(get_market_code(arg.text), NoJson, <<>>))

Call_APIClient ==
    Apply("APIClient", Result(APIClient(arg.token).validate_key, NoJson, <<>>))

Call_query_asset_and_position_v1 ==
    Apply("query_asset_and_position_v1",
          query_asset_and_position_v1(APIClient(arg.token), arg.answer))

Call_submit_trade_v2 ==
    Apply("submit_trade_v2",
          submit_trade_v2(APIClient(arg.token), arg.text, "B",
                          get_market_code(arg.text), 12, 100, arg.answer))

Call_revoke_orders ==
    Apply("revoke_orders",
          revoke_orders(APIClient(arg.token), arg.text, arg.answer))

Call_get_orders_data ==
    Apply("get_orders_data", get_orders_data(APIClient(arg.token), arg.answer))

Call_stock_bid_ask_em ==
    Apply("stock_bid_ask_em",
          stock_bid_ask_em(APIClient(arg.token), arg.text, arg.answer))

Call_get_account_info ==
    Apply("get_account_info", get_account_info(is_logged_in, account_info))

\* login of the agent of emta/trading.py, which stores no credentials and
\* fetches no captcha.
Call_legacy_login ==
    /\ pc = "call" /\ out = NoOut
    /\ arg.fn = "legacy_login"
    /\ LET self == [username |-> username, password |-> password,
                    is_logged_in |-> is_logged_in, account_info |-> account_info,
                    validate_key |-> validate_key, random_code |-> random_code,
                    identify_code |-> identify_code]
           r == legacy_login(self, arg.creds[1], arg.creds[2], arg.post, arg.token)
       IN  /\ is_logged_in' = r.is_logged_in
           /\ account_info' = r.account_info
           /\ validate_key' = r.validate_key
           /\ out' = Result(r.value, NoJson, r.requests)
    /\ UNCHANGED <<username, password, api_client, random_code, identify_code,
                   pc, frame, log, ret, auth_ret, asset_answer, nrandom,
                   ncalls, arg, submitted>>

Call_logout ==
    /\ pc = "call" /\ out = NoOut
    /\ arg.fn = "logout"
    /\ LET a == AgentLogout(is_logged_in, account_info, validate_key)
       IN  /\ is_logged_in' = a.is_logged_in
           /\ account_info' = a.account_info
           /\ validate_key' = a.validate_key
    /\ out' = Result(None, NoJson, <<>>)
    /\ UNCHANGED <<username, password, api_client, random_code, identify_code,
                   pc, frame, log, ret, auth_ret, asset_answer, nrandom,
                   ncalls, arg, submitted>>

Call_place_order ==
    Apply("place_order",
          place_order(is_logged_in, validate_key, api_client, arg.text))

\* login's lines 84-86 and 91-122 on an agent whose asset query was answered
\* arg.asset: the APIClient is built from the AuthClient's token, the loop
\* appends to the account_info the agent holds, and an exception in it ends
\* in the handler of lines 125-129.
Call_Hydrate ==
    /\ pc = "call" /\ out = NoOut
    /\ arg.fn = "Hydrate"
    /\ api_client' = APIClient(validate_key)
    /\ LET h == Hydrate(account_info, arg.asset.Data, arg.text)
       IN  /\ account_info' = h.account_info
           /\ is_logged_in' = ~h.raised
           /\ out' = Result(IF h.raised THEN PyFalse ELSE PyTrue, NoJson, <<>>)
    /\ UNCHANGED <<username, password, random_code, identify_code,
                   validate_key, pc, frame, log, ret, auth_ret, asset_answer,
                   nrandom, ncalls, arg, submitted>>

Call_cancel_order ==
    Apply("cancel_order", cancel_order(is_logged_in, arg.text))

\* _get_captcha on an AuthClient holding the pair arg.pair.
Call__get_captcha ==
    /\ pc = "call" /\ out = NoOut
    /\ arg.fn = "_get_captcha"
    /\ LET g == _get_captcha(arg.nonce, arg.captcha)
       IN  /\ random_code' = g.random_code
           /\ identify_code' = g.identify_code
           /\ out' = IF g.raised THEN Raise(g.exc.type, <<>>)
                     ELSE Result(None, NoJson, <<>>)
    /\ UNCHANGED <<username, password, is_logged_in, account_info, api_client,
                   validate_key, pc, frame, log, ret, auth_ret, asset_answer,
                   nrandom, ncalls, arg, submitted>>

CallNext ==
    \/ Call_logout
    \/ Call_legacy_login
    \/ Call_get_account_info
    \/ Call_stock_bid_ask_em
    \/ Call__get_captcha
    \/ Call_cancel_order
    \/ Call_Hydrate
    \/ Call_place_order
    \/ Call_get_market_code
    \/ Call_APIClient
    \/ Call_query_asset_and_position_v1
    \/ Call_submit_trade_v2
    \/ Call_revoke_orders
    \/ Call_get_orders_data

CallSpec == CallInit /\ [][CallNext]_vars

(***************************************************************************)
(* Reading the log.                                                        *)
(***************************************************************************)
IsPost(e) == e.kind = "post"
Posts == SelectSeq(log, IsPost)
IsSleep(e) == e.kind = "sleep"
IsCaptcha(e) == e.kind = "captcha"
Pair(e) == <<e.nonce, e.code>>

\* Faults of the login POST that the loop retries.
TransportFaults == {"RequestError", "HTTPStatusError"}

\* A login() call has returned.
LoginDone == pc = "idle" /\ ret.op = "login"

\* The call in progress (or last made) got through authentication.
Authenticated ==
    /\ LoginDone
    /\ log # <<>>
    /\ log[Len(log)].kind = "token"
    /\ log[Len(log)].outcome = "found"

(***************************************************************************)
(* C1: after a login() with both credentials, a login POST answered with   *)
(* Status 0, a non-empty scraped token and an asset answer whose Data has k *)
(* well-formed entries, login() returned True, is_logged_in is True and    *)
(* account_info holds k entries.                                           *)
(***************************************************************************)
C1_LoginSuccessHydrates ==
    ( /\ Authenticated
      /\ Truthy(validate_key)
      /\ "Data" \in DOMAIN asset_answer
      /\ ~Hydrate(<<>>, Get(asset_answer, "Data", <<>>), username).raised )
    => /\ ret.value = "True"
       /\ is_logged_in
       /\ Len(account_info) = Len(Get(asset_answer, "Data", <<>>))

(***************************************************************************)
(* C2: a login POST answered with a non-zero Status ends the call at once  *)
(* with False: the rejected POST is the last thing the call does, and when *)
(* the first POST is the rejected one the call made exactly one POST, no   *)
(* captcha fetch and no sleep, whatever max_retries is.                    *)
(***************************************************************************)
C2_RejectionIsTerminal ==
    \A i \in 1 .. Len(log) :
        (IsPost(log[i]) /\ log[i].outcome = "Rejected")
        => /\ i = Len(log)
           /\ LoginDone
           /\ ret.value = "False"
           /\ auth_ret = Returned(FALSE)
           /\ (i = 1 => /\ Len(Posts) = 1
                        /\ Len(SelectSeq(log, IsSleep)) = 0
                        /\ Len(SelectSeq(log, IsCaptcha)) = 0)

C2_Witness ==
    /\ LoginDone
    /\ ret.why = "rejected"
    /\ frame.max_retries = MaxRetries
    /\ Len(log) = 1

(***************************************************************************)
(* C3: when the first N-1 login POSTs of an AuthClient.login call met a    *)
(* transport fault and the Nth was answered with Status 0 and the token    *)
(* was scraped, the call returned success after exactly N POSTs, each      *)
(* retry carrying the pair of a captcha fetched after the POST before it,  *)
(* and no two POSTs of the call carrying the same pair.                    *)
(***************************************************************************)
FaultsThenSuccess ==
    /\ Authenticated
    /\ \A i \in 1 .. Len(Posts) - 1 : Posts[i].outcome \in TransportFaults
    /\ Posts[Len(Posts)].outcome = "Status0"

\* Every POST after the first directly follows a successful captcha fetch and
\* carries the pair that fetch produced.
RetriesUseNewCaptcha ==
    \A i \in 2 .. Len(log) :
        IsPost(log[i])
        => /\ IsCaptcha(log[i - 1])
           /\ log[i - 1].outcome = "none"
           /\ Pair(log[i]) = Pair(log[i - 1])

DistinctPairs ==
    \A i, j \in 1 .. Len(Posts) : i # j => Pair(Posts[i]) # Pair(Posts[j])

C4_AtMostMaxRetriesPlusOnePosts ==
    Len(Posts) <= (IF frame.max_retries >= 0 THEN frame.max_retries + 1 ELSE 0)

C4_Witness ==
    /\ LoginDone
    /\ frame.max_retries = MaxRetries
    /\ Len(Posts) = MaxRetries + 1
    /\ \A i \in 1 .. Len(Posts) : Posts[i].outcome \in TransportFaults

(***************************************************************************)
(* C5: between two consecutive login POSTs of a call lie a sleep and then  *)
(* a captcha fetch whose pair the second POST carries, so the two POSTs    *)
(* differ in their pair; no sleep and no captcha fetch follow the last     *)
(* allowed attempt.                                                        *)
(***************************************************************************)
C5_DelayThenCaptchaBeforeRetry ==
    /\ \A i \in 1 .. Len(log) :
          (IsPost(log[i]) /\ i > 1)
          => /\ i > 2
             /\ IsCaptcha(log[i - 1]) /\ log[i - 1].outcome = "none"
             /\ IsSleep(log[i - 2])
             /\ Pair(log[i]) = Pair(log[i - 1])
    /\ \A i \in 1 .. Len(Posts) - 1 : Pair(Posts[i]) # Pair(Posts[i + 1])
    /\ \A i \in 1 .. Len(log) :
          (IsSleep(log[i]) \/ IsCaptcha(log[i]))
          => (ret.op = "login" => log[i].attempt < frame.max_retries)

C5_Witness ==
    /\ LoginDone
    /\ frame.max_retries = MaxRetries
    /\ Len(Posts) = MaxRetries + 1
    /\ log[Len(log)].kind = "post"
    /\ log[Len(log)].outcome = "RequestError"

(***************************************************************************)
(* C6: when every allowed attempt of AuthClient.login ended in a transport *)
(* fault of the login POST, the call raised LoginError wrapping the fault  *)
(* of the last attempt, and TradingAgent.login returned False with         *)
(* is_logged_in False.                                                     *)
(***************************************************************************)
AllAttemptsFaulted ==
    /\ LoginDone
    /\ frame.max_retries >= 0
    /\ Len(Posts) = frame.max_retries + 1
    /\ \A i \in 1 .. Len(Posts) : Posts[i].outcome \in TransportFaults

TokenFailed(e) ==
    e.kind = "token" /\ e.outcome \in {"absent", "RequestError"}

C7_TokenFailureIsTerminal ==
    \A i \in 1 .. Len(log) :
        TokenFailed(log[i])
        => /\ i = Len(log)
           /\ pc = "idle"
           /\ auth_ret.kind = "raise"
           /\ auth_ret.exc.type = "ValidateKeyError"

HydrationFailures == {"AttributeError", "hydration"}

C9_FailedHydrationLeavesNothing ==
    [][ (pc = "token" /\ pc' = "idle" /\ ret'.why \in HydrationFailures)
        => /\ ret'.value = "False"
           /\ ~is_logged_in'
           /\ account_info' = account_info
           /\ Truthy(log'[Len(log')].code)
              => /\ validate_key' # log'[Len(log')].code
                 /\ api_client'.validate_key # log'[Len(log')].code ]_vars

(***************************************************************************)
(* C10: a login() whose merged username or password is missing returns     *)
(* False without any network call and changes neither is_logged_in,        *)
(* account_info, the stored credentials nor the auth session.              *)
(***************************************************************************)
C10_MissingCredentialsNoOp ==
    [][ ( /\ pc = "idle"
          /\ ncalls' = ncalls + 1
          /\ \/ ~Truthy(frame'.login_username)
             \/ ~Truthy(frame'.login_password) )
        => /\ pc' = "idle"
           /\ ret' = [op |-> "login", value |-> "False",
                      why |-> "missing_credentials"]
           /\ log' = <<>>
           /\ nrandom' = nrandom
           /\ UNCHANGED <<username, password, is_logged_in, account_info,
                          api_client, random_code, identify_code,
                          validate_key>> ]_vars

C10_Witness ==
    /\ LoginDone
    /\ ret.why = "missing_credentials"
    /\ username # None
    /\ frame.login_username = username
    /\ ~Truthy(frame.login_password)
    /\ random_code # NoneNum

(***************************************************************************)
(* C20: get_market_code gives every symbol of exactly 5 digits the code    *)
(* HK followed by those 5 digits, whatever the leading digits are.         *)
(***************************************************************************)
C20_FiveDigitsAreHongKong ==
    ( /\ arg.fn = "get_market_code"
      /\ out # NoOut
      /\ Len(arg.text) = 5
      /\ IsDigitStr(arg.text) )
    => out = Result(<<"H", "K">> \o arg.text, NoJson, <<>>)

(***************************************************************************)
(* C11: after logout(), whatever the agent was before (logged in or not,   *)
(* with or without account entries or a token), is_logged_in is False,     *)
(* account_info is empty and get_account_info() returns the empty list.   *)
(***************************************************************************)
C11_LogoutLeavesNotLoggedIn ==
    (arg.fn = "logout" /\ out # NoOut)
    => /\ ~is_logged_in
       /\ account_info = <<>>
       /\ get_account_info(is_logged_in, account_info)
            = Result(EmptyList, NoJson, <<>>)

C11_Witness ==
    /\ arg.fn = "logout"
    /\ out # NoOut
    /\ arg.agent.is_logged_in
    /\ Len(arg.agent.account_info) = 2
    /\ account_info = <<>>

(***************************************************************************)
(* C12: logout() returns without raising and without sending anything,     *)
(* leaves no validation token in the AuthClient, and a second logout()     *)
(* right after it would assign to every field the value it already has.    *)
(***************************************************************************)
C12_LogoutIdempotent ==
    (pc = "idle" /\ ret.op = "logout")
    => /\ ret.value = "None"
       /\ log = <<>>
       /\ validate_key = None
       /\ AgentLogout(is_logged_in, account_info, validate_key)
            = [is_logged_in |-> is_logged_in, account_info |-> account_info,
               validate_key |-> validate_key]

\* A logout() after a login that had scraped a token.
C12_Witness ==
    /\ pc = "idle"
    /\ ret.op = "logout"
    /\ auth_ret = Returned(TRUE)
    /\ Truthy(api_client.validate_key)
    /\ validate_key = None

(***************************************************************************)
(* C13: an APIClient cannot be built with an absent or empty validation    *)
(* token, and no authenticated request is sent with one: either ends with  *)
(* ValidateKeyError before anything reaches the transport.                 *)
(***************************************************************************)
C13_NoTokenlessClientOrRequest ==
    ( /\ arg.fn \in ApiOps \cup {"APIClient"}
      /\ out # NoOut
      /\ ~Truthy(arg.token) )
    => /\ out.raised
       /\ out.exc = "ValidateKeyError"
       /\ out.requests = <<>>

(***************************************************************************)
(* C14: after logout(), neither the AuthClient nor the agent's APIClient   *)
(* holds a validation token obtained before the logout.                    *)
(***************************************************************************)
C14_NoStaleTokenAfterLogout ==
    (pc = "idle" /\ ret.op = "logout")
    => /\ validate_key = None
       /\ api_client = NoClient \/ ~Truthy(api_client.validate_key)

(***************************************************************************)
(* C15: place_order on an agent with is_logged_in False or without a       *)
(* validation token returns None, sends nothing and changes no field of    *)
(* the agent or of its AuthClient.                                         *)
(***************************************************************************)
C15_PlaceOrderNotLoggedIn ==
    [][ ( /\ pc = "idle"
          /\ ret'.op = "place_order"
          /\ ~is_logged_in \/ ~Truthy(validate_key) )
        => /\ ret'.value = "None"
           /\ log' = <<>>
           /\ UNCHANGED <<username, password, is_logged_in, account_info,
                          api_client, random_code, identify_code,
                          validate_key, nrandom>> ]_vars

C15_Witness ==
    /\ pc = "idle"
    /\ ret.op = "place_order"
    /\ ret.value = "None"
    /\ log = <<>>
    /\ ~is_logged_in
    /\ Truthy(validate_key)
    /\ api_client # NoClient

(***************************************************************************)
(* C16: on an agent with is_logged_in False, cancel_order returns False,   *)
(* get_order_status returns None, get_market_data returns {} and           *)
(* get_account_info returns [], each sending nothing and changing no field *)
(* of the agent or of its AuthClient.                                      *)
(***************************************************************************)
GuardedQueries ==
    {"cancel_order", "get_order_status", "get_market_data", "get_account_info"}

C16_GuardedQueriesNotLoggedIn ==
    [][ (pc = "idle" /\ ~is_logged_in /\ ret'.op \in GuardedQueries)
        => /\ ret'.op = "cancel_order" => ret'.value = "False"
           /\ ret'.op = "get_order_status" => ret'.value = "None"
           /\ ret'.op = "get_market_data" => ret'.value = "{}"
           /\ ret'.op = "get_account_info" => ret'.value = "[]"
           /\ log' = <<>>
           /\ UNCHANGED <<username, password, is_logged_in, account_info,
                          api_client, random_code, identify_code,
                          validate_key, nrandom>> ]_vars

C16_Witness ==
    /\ pc = "idle"
    /\ ret.op = "cancel_order"
    /\ ret.value = "False"
    /\ log = <<>>
    /\ ~is_logged_in
    /\ auth_ret = Returned(TRUE)

(***************************************************************************)
(* C17: place_order on a logged-in agent whose submission the vendor       *)
(* answers with a Status other than 0 sends that one submission and        *)
(* returns the failure sentinel None, no identifier.                       *)
(***************************************************************************)
SubmissionAnswered ==
    /\ arg.fn = "place_order"
    /\ out # NoOut
    /\ arg.agent.is_logged_in
    /\ Truthy(arg.agent.validate_key)
    /\ arg.agent.api_client # NoClient
    /\ arg.answer.fault = "none"
    /\ arg.answer.status_code = 200
    /\ arg.answer.body.json.parses

Today == <<"2", "0", "2", "4", "0", "5", "2", "0">>

C19_Non200RaisesTradingError ==
    ( /\ arg.fn \in ApiOps
      /\ out # NoOut
      /\ arg.answer.fault = "none" )
    => IF arg.answer.status_code # 200
       THEN out = Raise("TradingError", out.requests)
       ELSE out.exc # "TradingError"

C19_Witness ==
    /\ arg.fn = "revoke_orders"
    /\ Truthy(arg.token)
    /\ arg.answer.fault = "none"
    /\ arg.answer.status_code = 404
    /\ arg.answer.body.json.parses
    /\ out = Raise("TradingError", out.requests)
    /\ Len(out.requests) = 1

(***************************************************************************)
(* C21: get_market_code returns, for every string (the empty one, padded   *)
(* and mixed ones included), one of HA, SA, BJ, HK followed by 5 digits,   *)
(* US: followed by upper-case letters, or UNKNOWN; "600519" gives HA,      *)
(* "000001" gives SA, and a symbol made of letters only gives US: followed *)
(* by the symbol in upper case.                                            *)
(***************************************************************************)
MarketCodeForms(v) ==
    \/ v \in { <<"H", "A">>, <<"S", "A">>, <<"B", "J">>,
               <<"U", "N", "K", "N", "O", "W", "N">> }
    \/ /\ Len(v) = 7
       /\ SubSeq(v, 1, 2) = <<"H", "K">>
       /\ \A i \in 3 .. 7 : v[i] \in DigitChars
    \/ /\ Len(v) > 3
       /\ SubSeq(v, 1, 3) = <<"U", "S", ":">>
       /\ \A i \in 4 .. Len(v) : IsUpper(v[i])

C25_ConstructionNeverFails ==
    ret.op = "__init__"
    => /\ ret.value = "None"
       /\ pc = "idle"
       /\ ~is_logged_in
       /\ account_info = <<>>
       /\ validate_key = None

(***************************************************************************)
(* C27: _get_captcha either stores the nonce it drew together with the     *)
(* text recognized for that nonce, or raises LoginError (transport fault,  *)
(* status other than 200, empty recognition) and leaves random_code and    *)
(* identify_code as they were: the two always come from the same fetch.    *)
(***************************************************************************)
C27_CaptchaPairReplacedTogether ==
    (arg.fn = "_get_captcha" /\ out # NoOut)
    => IF arg.captcha.fault = "none" /\ arg.captcha.text # <<>>
       THEN /\ ~out.raised
            /\ <<random_code, identify_code>> = <<arg.nonce, arg.captcha.text>>
       ELSE /\ out.raised
            /\ out.exc = "LoginError"
            /\ <<random_code, identify_code>> = arg.pair

\* An empty recognition on an AuthClient that holds a pair.
C27_Witness ==
    /\ arg.fn = "_get_captcha"
    /\ out # NoOut
    /\ out.raised
    /\ arg.captcha.fault = "none"
    /\ <<random_code, identify_code>> = <<1, <<"7", "k">> >>

(***************************************************************************)
(* C28: a captcha refresh that fails while a retry is prepared is the last *)
(* event of its login() call: AuthClient.login has raised LoginError, no   *)
(* login POST follows even when retries remain, and no token was scraped   *)
(* in that call.                                                           *)
(***************************************************************************)
CaptchaFailed(e) ==
    e.kind = "captcha" /\ (e.outcome # "none" \/ e.code = <<>>)

C28_FailedRefreshEndsLogin ==
    ret.op = "login"
    => \A i \in 1 .. Len(log) :
          CaptchaFailed(log[i])
          => /\ i = Len(log)
             /\ pc = "idle"
             /\ auth_ret.kind = "raise"
             /\ auth_ret.exc.type = "LoginError"
             /\ \A j \in 1 .. Len(log) :
                    ~(log[j].kind = "token" /\ log[j].outcome = "found")

\* The refresh after the first of three allowed attempts failed.
C28_Witness ==
    /\ LoginDone
    /\ frame.max_retries = 2
    /\ Len(Posts) = 1
    /\ CaptchaFailed(log[Len(log)])
    /\ auth_ret.kind = "raise"

(***************************************************************************)
(* C29: whenever AuthClient.login has returned success, validate_key is a  *)
(* non-empty token and it is the one scraped by the last step of that same *)
(* call; a page whose token attribute is empty gives no successful login.  *)
(***************************************************************************)
C29_SuccessHasFreshToken ==
    (LoginDone /\ auth_ret = Returned(TRUE))
    => /\ log # <<>>
       /\ log[Len(log)].kind = "token"
       /\ log[Len(log)].outcome = "found"
       /\ validate_key = log[Len(log)].code
       /\ validate_key # None
       /\ validate_key # <<>>

(***************************************************************************)
(* C30: within a login() call every login POST carries a captcha pair      *)
(* fetched before it, the token page is requested only right after a POST  *)
(* of the same attempt was answered with Status 0, and login() goes on to  *)
(* the asset query only after the token was scraped.                       *)
(***************************************************************************)
AssetStepReached == ret.why \in HydrationFailures \cup {"ok"}

C30_LoginStepsInOrder ==
    ret.op = "login"
    => /\ \A i \in 1 .. Len(log) :
             log[i].kind = "post"
             => log[i].nonce \in 1 .. nrandom /\ Truthy(log[i].code)
       /\ \A i \in 1 .. Len(log) :
             log[i].kind = "token"
             => /\ i > 1
                /\ log[i - 1].kind = "post"
                /\ log[i - 1].outcome = "Status0"
                /\ log[i - 1].attempt = log[i].attempt
       /\ AssetStepReached
          => /\ Authenticated
             /\ Len(log) > 1
             /\ api_client = APIClient(log[Len(log)].code)

\* A login whose second attempt was accepted and whose token was scraped.
C30_Witness ==
    /\ Authenticated
    /\ AssetStepReached
    /\ Len(Posts) = 2
    /\ log[Len(log) - 1].outcome = "Status0"

(***************************************************************************)
(* C23: the AuthClient starts without a validation token, a logout leaves  *)
(* none, and a step gives it a token only when it is the scrape, right     *)
(* after a login POST answered with Status 0, that found the token it      *)
(* stores: no captcha fetch, rejected login or failed attempt sets it.     *)
(***************************************************************************)
C23_TokenOnlyFromScrapeAfterStatus0 ==
    /\ validate_key = None
    /\ [][ /\ ret'.op = "logout" => validate_key' = None
           /\ (validate_key' # validate_key /\ validate_key' # None)
              => /\ pc = "token"
                 /\ Len(log') = Len(log) + 1
                 /\ log'[Len(log')].kind = "token"
                 /\ log'[Len(log')].outcome = "found"
                 /\ log'[Len(log')].code = validate_key'
                 /\ log[Len(log)].kind = "post"
                 /\ log[Len(log)].outcome = "Status0" ]_vars

\* A rejected login() on an AuthClient that holds the token of an earlier one.
C23_Witness ==
    /\ LoginDone
    /\ auth_ret = Returned(FALSE)
    /\ Truthy(validate_key)

(***************************************************************************)
(* C26: no two login POSTs, of the same login() call or of different       *)
(* ones, carry the same captcha pair (a replaced pair cannot come back, so *)
(* it is enough to look at the POSTs made with the pair currently stored). *)
(***************************************************************************)
C26_NoCaptchaPairResubmitted ==
    \A i, j \in 1 .. Len(submitted) :
        i # j => submitted[i] # submitted[j]

C32_LoginTerminates ==
    (pc \in {"post", "token", "captcha"})
    ~> (pc = "idle" /\ auth_ret.kind \in {"return", "raise"})

\* A login that used every allowed attempt and ended.
C32_Witness ==
    /\ LoginDone
    /\ frame.max_retries = MaxRetries
    /\ Len(Posts) = MaxRetries + 1
    /\ auth_ret.kind = "raise"
    /\ nrandom = MaxRetries + 1

(***************************************************************************)
(* C33: the password field of every login POST is the RSA ciphertext of    *)
(* the password with its surrounding whitespace removed, no other field of *)
(* the POST is the password, and no other request carries any password.    *)
(***************************************************************************)
C33_PasswordOnlyAsCiphertext ==
    ret.op = "login"
    => \A i \in 1 .. Len(log) :
          IF log[i].kind = "post"
          THEN /\ log[i].data.password
                    = [alg |-> "RSA-PKCS1v15-b64",
                       plaintext |-> Strip(frame.login_password)]
               /\ log[i].data.userId
                    \notin {frame.login_password, Strip(frame.login_password)}
               /\ log[i].code
                    \notin {frame.login_password, Strip(frame.login_password)}
          ELSE log[i].data = NoData

\* A retried login with a password that has leading whitespace.
C33_Witness ==
    /\ LoginDone
    /\ Len(Posts) = 2
    /\ frame.login_password = <<" ", "q">>
    /\ Posts[2].data.password.plaintext = <<"q">>

C35_NoDataKeyIsSuccess ==
    [][ ( /\ pc = "token"
          /\ pc' = "idle"
          /\ auth_ret' = Returned(TRUE)
          /\ "Data" \notin DOMAIN asset_answer' )
        => /\ ret'.value = "True"
           /\ is_logged_in'
           /\ account_info' = account_info ]_vars

(***************************************************************************)
(* C36: for a symbol and an answer of the vendor, stock_bid_ask_em sends   *)
(* the same single request and ends in the same way whatever token the     *)
(* client holds (none, an empty one, a scraped one); the request carries   *)
(* no token and its market code is 1 exactly when the symbol starts with   *)
(* "6", and 0 otherwise.                                                   *)
(***************************************************************************)
C36_QuoteIgnoresSession ==
    (arg.fn = "stock_bid_ask_em" /\ out # NoOut)
    => /\ \A k \in Tokens :
             out = stock_bid_ask_em(APIClient(k), arg.text, arg.answer)
       /\ Len(out.requests) = 1
       /\ DOMAIN out.requests[1] = {"url", "secid"}
       /\ out.requests[1].secid
            = (IF arg.text # <<>> /\ arg.text[1] = "6" THEN <<"1">> ELSE <<"0">>)
              \o <<".">> \o arg.text

\* A quote fetched by a client without token, for a Shanghai symbol.
C36_Witness ==
    /\ arg.fn = "stock_bid_ask_em"
    /\ out # NoOut
    /\ arg.token = None
    /\ ~out.raised
    /\ out.json.buy_1_vol = 300
    /\ out.requests[1].secid = <<"1", ".", "6", "0", "0", "0", "0", "0">>

(***************************************************************************)
(* C37: get_account_info on a logged-in agent returns, when the agent has  *)
(* account entries, the record of the first entry alone (its username, its *)
(* Zjye as account_balance, its portfolio) and otherwise the empty list;   *)
(* it sends nothing and changes no field of the agent.                     *)
(***************************************************************************)
C37_AccountInfoOfFirstEntry ==
    (arg.fn = "get_account_info" /\ out # NoOut /\ arg.agent.is_logged_in)
    => /\ IF arg.agent.account_info # <<>>
          THEN LET first == arg.agent.account_info[1]
               IN  /\ ~out.raised
                   /\ out.value = <<"dict">>
                   /\ out.json = [parses |-> TRUE, username |-> first.username,
                                  account_balance |-> first.account_overview.Zjye,
                                  portfolio |-> first.portfolio]
          ELSE out = Result(EmptyList, NoJson, <<>>)
       /\ out.requests = <<>>
       /\ is_logged_in = arg.agent.is_logged_in
       /\ account_info = arg.agent.account_info
       /\ validate_key = arg.agent.validate_key
       /\ api_client = arg.agent.api_client

\* An agent with two entries whose balances differ.
C37_Witness ==
    /\ arg.fn = "get_account_info"
    /\ out # NoOut
    /\ is_logged_in
    /\ Len(account_info) = 2
    /\ account_info[1].account_overview.Zjye # account_info[2].account_overview.Zjye
    /\ out.json.account_balance = Num(5)

(***************************************************************************)
(* C38: whenever login() of the agent of emta/trading.py returns False the *)
(* agent is not logged in and its account_info is empty, also when the     *)
(* login POST was answered Status 0 and the token scrape then failed.      *)
(* Stated of the agents that were not logged in before the call.           *)
(***************************************************************************)
C38_LegacyFailedLoginIsClean ==
    (/\ arg.fn = "legacy_login"
     /\ ~arg.agent.is_logged_in
     /\ out # NoOut
     /\ out.value = PyFalse)
    => (~is_logged_in /\ DOMAIN account_info = {})

(***************************************************************************)
(* C39: a login() that is given a username or a password and does not fail *)
(* for missing credentials stores what it was given before it              *)
(* authenticates, and no later step of the call changes the stored         *)
(* credentials, so a failed login leaves the credentials just passed in;   *)
(* a login() that fails for missing credentials leaves the stored ones as  *)
(* they were.                                                              *)
(***************************************************************************)
C39_LoginStoresPassedCredentials ==
    [][ /\ (pc = "idle" /\ ret'.op = "login"
               /\ ret'.why # "missing_credentials")
           => \A a \in LoginArgs :
                 Login(a[1], a[2], frame'.max_retries)
                 => /\ Truthy(a[1]) => username' = a[1]
                    /\ Truthy(a[2]) => password' = a[2]
        /\ (pc = "idle" /\ ret'.op = "login"
               /\ ret'.why = "missing_credentials")
           => UNCHANGED <<username, password>>
        /\ pc \in {"post", "token", "captcha"}
           => UNCHANGED <<username, password>> ]_vars

\* A login given both credentials sent its POST, failed, and left them stored.
C39_Witness ==
    /\ LoginDone
    /\ ret.value = "False"
    /\ ret.why # "missing_credentials"
    /\ Posts # <<>>
    /\ username = <<"v", " ">>
    /\ password = <<" ", "q">>


=============================================================================
